---- MODULE Spec2Model ----
(***************************************************************************)
(* Model of the SilentSocks sales importer: the sales-statistics parser    *)
(* (data_processor.py), the SQLite persistence layer (database.py) and the *)
(* "Process Files" batch handler (app.py).                                 *)
(*                                                                         *)
(* Text is modelled as a sequence of one-character strings, so that        *)
(* str(), strip(), lower(), upper(), find() and the regular expressions    *)
(* are computed character by character as the code computes them.          *)
(***************************************************************************)
EXTENDS Integers, Sequences, FiniteSets, TLC

VARIABLES
    uploaded_file,        \* the file handed to process_sales_file
    df_raw,               \* the grid read by pd.read_excel(header=None)
    file_date,            \* period derived from the filename
    start_row,            \* first row to classify
    i,                    \* loop index of the classification loop
    current_customer_id,  \* customer context of the classification loop
    records,              \* list of emitted records
    emitted_at,           \* history: source row index of each emitted record
    pc,                   \* position in process_sales_file
    customers,            \* rows of table customers, in rowid order
    sales,                \* rows of table sales, in rowid order
    settings,             \* rows of table settings, in rowid order
    last_upsert,          \* history: per customer number, the last row upserted
    last_setting,         \* history: per key, the last value saved and not deleted
    last_call,            \* history: the last persistence operation
    uploaded_files,       \* the files of the "Process Files" batch, in upload order
    idx,                  \* number of files the batch loop has handled
    reports,              \* the message kind shown for each handled file
    files_processed,      \* counters of the batch loop
    cust_files,
    sales_files,
    status,               \* "idle", "processing" or "complete"
    leaked,               \* an abandoned connection still holds the write lock
    norm_kind,            \* which field function is exercised: "id", "name", "period"
    norm_in,              \* its input text
    norm_out,             \* the results of its successive applications
    norm_raised           \* an application raised

parser_vars == <<uploaded_file, df_raw, file_date, start_row, i,
                 current_customer_id, records, emitted_at, pc>>
store_vars == <<customers, sales, settings>>
history_vars == <<last_upsert, last_setting, last_call>>

batch_vars == <<uploaded_files, idx, reports, files_processed, cust_files,
                sales_files, status, leaked>>

norm_vars == <<norm_kind, norm_in, norm_out, norm_raised>>

vars == <<parser_vars, store_vars, history_vars, batch_vars, norm_vars>>

(***************************************************************************)
(* Characters and strings                                                  *)
(***************************************************************************)
LOWERS == <<"a", "b", "c", "d", "e", "f", "g", "h", "i", "j", "k", "l", "m",
            "n", "o", "p", "q", "r", "s", "t", "u", "v", "w", "x", "y", "z">>
UPPERS == <<"A", "B", "C", "D", "E", "F", "G", "H", "I", "J", "K", "L", "M",
            "N", "O", "P", "Q", "R", "S", "T", "U", "V", "W", "X", "Y", "Z">>
DIGITS == <<"0", "1", "2", "3", "4", "5", "6", "7", "8", "9">>

\* Characters outside ASCII are named by their code point.
\* U+0130, capital I with dot above: its lower() is the two characters
\* "i" and U+0307 (combining dot above)
I_DOT == "U+0130"
COMBINING_DOT == "U+0307"
\* U+00B2, superscript two: str.isdigit() accepts it, int() and \d do not
SUPER_TWO == "U+00B2"

Range(s) == {s[k] : k \in 1..Len(s)}

IndexIn(s, c) == CHOOSE k \in 1..Len(s) : s[k] = c

\* str.lower() / str.upper(), one character
LowerChar(c) == IF c \in Range(UPPERS) THEN LOWERS[IndexIn(UPPERS, c)] ELSE c
UpperChar(c) == IF c \in Range(LOWERS) THEN UPPERS[IndexIn(LOWERS, c)] ELSE c

\* str.lower() of a text: one character may become two
RECURSIVE LowerFlat(_)
LowerFlat(s) ==
    IF s = <<>> THEN <<>>
    ELSE (IF Head(s) = I_DOT THEN <<"i", COMBINING_DOT>> ELSE <<LowerChar(Head(s))>>)
             \o LowerFlat(Tail(s))

Lower(s) ==
    IF I_DOT \in Range(s) THEN LowerFlat(s)
    ELSE [k \in 1..Len(s) |-> LowerChar(s[k])]
Upper(s) == [k \in 1..Len(s) |-> UpperChar(s[k])]

\* a decimal digit: what int() accepts and what \d matches
IsDecimalChar(c) == c \in Range(DIGITS)
\* a character str.isdigit() accepts
IsDigitChar(c) == IsDecimalChar(c) \/ c = SUPER_TWO
IsSpaceChar(c) == c = " "

DigitVal(c) == IndexIn(DIGITS, c) - 1

\* str.isdigit(): non-empty and every character a digit
IsDigit(s) == Len(s) > 0 /\ \A k \in 1..Len(s) : IsDigitChar(s[k])

\* non-empty and every character a decimal digit
IsDecimal(s) == Len(s) > 0 /\ \A k \in 1..Len(s) : IsDecimalChar(s[k])

\* str.strip(): drop leading and trailing whitespace
Strip(s) ==
    LET nonsp == {k \in 1..Len(s) : ~IsSpaceChar(s[k])}
    IN  IF nonsp = {} THEN <<>>
        ELSE LET lo == CHOOSE k \in nonsp : \A m \in nonsp : k <= m
                 hi == CHOOSE k \in nonsp : \A m \in nonsp : k >= m
             IN  SubSeq(s, lo, hi)

\* sub occurs in s at position p (1-based)
OccursAt(s, sub, p) ==
    /\ p >= 1
    /\ p + Len(sub) - 1 <= Len(s)
    /\ SubSeq(s, p, p + Len(sub) - 1) = sub

\* "sub in s"
Contains(s, sub) == \E p \in 1..(Len(s) + 1) : OccursAt(s, sub, p)

\* str.find(sub): 0-based index of the first occurrence, -1 when absent
Find(s, sub) ==
    IF Contains(s, sub)
    THEN (CHOOSE p \in 1..(Len(s) + 1) :
              /\ OccursAt(s, sub, p)
              /\ \A q \in 1..(p - 1) : ~OccursAt(s, sub, q)) - 1
    ELSE -1

\* s[pos:] for a 0-based pos
SliceFrom(s, pos) == SubSeq(s, pos + 1, Len(s))

\* str.replace(c, ''): remove every occurrence of the character c
RECURSIVE RemoveChar(_, _)
RemoveChar(s, c) ==
    IF s = <<>> THEN <<>>
    ELSE IF Head(s) = c THEN RemoveChar(Tail(s), c)
    ELSE <<Head(s)>> \o RemoveChar(Tail(s), c)

\* str.split('.')[0]: the text before the first '.'
BeforeDot(s) ==
    LET pos == Find(s, <<".">>)
    IN  IF pos = -1 THEN s ELSE SubSeq(s, 1, pos)

\* int(s) for a string of digits
RECURSIVE DigitsToInt(_)
DigitsToInt(s) ==
    IF s = <<>> THEN 0
    ELSE 10 * DigitsToInt(SubSeq(s, 1, Len(s) - 1)) + DigitVal(s[Len(s)])

\* str(n) for a natural number
RECURSIVE NatToDigits(_)
NatToDigits(n) ==
    IF n < 10 THEN <<DIGITS[n + 1]>>
    ELSE NatToDigits(n \div 10) \o <<DIGITS[(n % 10) + 1]>>

\* str(n) for an integer
IntToStr(n) == IF n < 0 THEN <<"-">> \o NatToDigits(-n) ELSE NatToDigits(n)

RECURSIVE ZeroPad(_, _)
ZeroPad(s, width) == IF Len(s) >= width THEN s ELSE ZeroPad(<<"0">> \o s, width)

(***************************************************************************)
(* Cells of the grid and Python's conversions on them                      *)
(***************************************************************************)
\* A cell is empty (NaN), a text, an integer or a float (v in tenths).
NaNCell == [t |-> "nan", s |-> <<>>, v |-> 0]
TextCell(s) == [t |-> "str", s |-> s, v |-> 0]
IntCell(n) == [t |-> "int", s |-> <<>>, v |-> n]
FloatCell(tenths) == [t |-> "float", s |-> <<>>, v |-> tenths]
\* a time-of-day cell, read as a datetime.time; s is its str()
TimeCell(s) == [t |-> "time", s |-> s, v |-> 0]

NAN_STR == <<"n", "a", "n">>

Abs(n) == IF n < 0 THEN -n ELSE n

\* str(x) of a float held in tenths: "9005.0", "-1.5"
FloatToStr(tenths) ==
    (IF tenths < 0 THEN <<"-">> ELSE <<>>)
        \o NatToDigits(Abs(tenths) \div 10) \o <<".">> \o NatToDigits(Abs(tenths) % 10)

\* str(cell): an empty cell renders as the text "nan"
CellStr(cell) ==
    CASE cell.t = "nan" -> NAN_STR
      [] cell.t = "str" -> cell.s
      [] cell.t = "int" -> IntToStr(cell.v)
      [] cell.t = "float" -> FloatToStr(cell.v)
      [] cell.t = "time" -> cell.s

\* Numbers are compared by value: v is the value in tenths.
NaN == [nan |-> TRUE, v |-> 0]
Number(tenths) == [nan |-> FALSE, v |-> tenths]

\* The numeric texts of the model: [-]digits[.digit]; any other text is
\* coerced to NaN.
ParseNumber(s) ==
    LET neg == Len(s) > 0 /\ s[1] = "-"
        body == IF neg THEN Tail(s) ELSE s
        dot == Find(body, <<".">>)
        whole == IF dot = -1 THEN body ELSE SubSeq(body, 1, dot)
        frac == IF dot = -1 THEN <<"0">> ELSE SliceFrom(body, dot + 1)
        mag == 10 * DigitsToInt(whole) + DigitsToInt(frac)
    IN  IF IsDecimal(whole) /\ IsDecimal(frac) /\ Len(frac) = 1
        THEN Number(IF neg THEN -mag ELSE mag)
        ELSE NaN

\* pd.to_numeric(cell, errors='coerce')
ToNumeric(cell) ==
    CASE cell.t = "nan" -> NaN
      [] cell.t = "str" -> ParseNumber(cell.s)
      [] cell.t = "int" -> Number(10 * cell.v)
      [] cell.t = "float" -> Number(cell.v)

\* pd.notna
NotNa(x) == ~x.nan

\* no batch is being processed
BatchIdle ==
    /\ uploaded_files = <<>>
    /\ idx = 0
    /\ reports = <<>>
    /\ files_processed = 0
    /\ cust_files = 0
    /\ sales_files = 0
    /\ status = "idle"
    /\ leaked = FALSE

\* no field function is being exercised
NormIdle ==
    /\ norm_kind = "none"
    /\ norm_in = <<>>
    /\ norm_out = <<>>
    /\ norm_raised = FALSE

\* history value: no persistence operation was called yet
NoCall == [op |-> "none", replaced |-> FALSE]

\* an optional text: None or a string
None == [null |-> TRUE, s |-> <<>>]
Some(s) == [null |-> FALSE, s |-> s]
Truthy(x) == ~x.null /\ x.s # <<>>

(***************************************************************************)
(* Period extraction from the filename (data_processor.py 73-98)           *)
(***************************************************************************)
SILENT_SOCKS == <<"s", "i", "l", "e", "n", "t", " ", "s", "o", "c", "k", "s">>

AllDigits(s, from, n) ==
    /\ from + n - 1 <= Len(s)
    /\ \A k \in from..(from + n - 1) : IsDecimalChar(s[k])

\* length of the whitespace run of s that starts at position p
RECURSIVE SpaceRun(_, _)
SpaceRun(s, p) ==
    IF p <= Len(s) /\ IsSpaceChar(s[p]) THEN 1 + SpaceRun(s, p + 1) ELSE 0

\* position of the six digits when r'Silent socks\s+(\d{2})(\d{2})(\d{2})'
\* (re.IGNORECASE) matches at position p, 0 when it does not
ProductMatchAt(s, p) ==
    LET q == p + Len(SILENT_SOCKS)
        ws == SpaceRun(s, q)
    IN  IF /\ OccursAt(Lower(s), SILENT_SOCKS, p)
           /\ ws >= 1
           /\ AllDigits(s, q + ws, 6)
        THEN q + ws ELSE 0

\* r'(\d{2})(\d{2})(\d{2})-(\d{2})(\d{2})(\d{2})' matches at position p
RangeMatchAt(s, p) ==
    /\ AllDigits(s, p, 6)
    /\ p + 6 <= Len(s)
    /\ s[p + 6] = "-"
    /\ AllDigits(s, p + 7, 6)

\* re.search: the leftmost position where the pattern matches
Leftmost(S) == CHOOSE p \in S : \A q \in S : p <= q

\* f"20{yy}-{mm}-{dd}" from the six digits at position d
FormatDate(s, d) ==
    <<"2", "0">> \o SubSeq(s, d, d + 1) \o <<"-">> \o SubSeq(s, d + 2, d + 3)
        \o <<"-">> \o SubSeq(s, d + 4, d + 5)

\* mutation: the range pattern is tried before the product marker
ExtractFileDate_RangeFirst(name, today) ==
    LET prod == {p \in 1..Len(name) : ProductMatchAt(name, p) # 0}
        rng == {p \in 1..Len(name) : RangeMatchAt(name, p)}
    IN  IF rng # {} THEN FormatDate(name, Leftmost(rng))
        ELSE IF prod # {} THEN FormatDate(name, ProductMatchAt(name, Leftmost(prod)))
        ELSE today

\* file_date; today is pd.Timestamp.now().strftime('%Y-%m-%d')
ExtractFileDate(name, today) ==
    LET prod == {p \in 1..Len(name) : ProductMatchAt(name, p) # 0}
        rng == {p \in 1..Len(name) : RangeMatchAt(name, p)}
    IN  IF prod # {} THEN FormatDate(name, ProductMatchAt(name, Leftmost(prod)))
        ELSE IF rng # {} THEN FormatDate(name, Leftmost(rng))
        ELSE today

(***************************************************************************)
(* Field normalisation (data_processor.py 153-199)                         *)
(***************************************************************************)
ID_WIDTH == 5

\* raw_id (lines 162-165): upper(), remove every 'E', strip, cut at the
\* first '.'
RawId(article_id) ==
    LET cleaned == Strip(RemoveChar(Upper(article_id), "E"))
    IN  IF Contains(cleaned, <<".">>) THEN BeforeDot(cleaned) ELSE cleaned

\* int(raw_id) raises ValueError: isdigit() accepted a character that is
\* no decimal digit
CanonicalRaises(article_id) ==
    IsDigit(RawId(article_id)) /\ ~IsDecimal(RawId(article_id))

\* article_id (lines 167-170): E + zero-padded integer, or E + the remainder
CanonicalArticleId(article_id) ==
    LET raw_id == RawId(article_id)
    IN  IF IsDigit(raw_id)
        THEN <<"E">> \o ZeroPad(NatToDigits(DigitsToInt(raw_id)), ID_WIDTH)
        ELSE <<"E">> \o raw_id

\* article_name: cut everything before the first "Silent Socks"
CleanArticleName(article_name) ==
    LET pos == Find(Lower(article_name), Lower(SILENT_SOCKS))
    IN  IF pos # -1 THEN SliceFrom(article_name, pos) ELSE article_name

(***************************************************************************)
(* Row classification (data_processor.py 118-202)                          *)
(***************************************************************************)
KUNDNR == <<"K", "u", "n", "d", "n", "r", ".">>
TOTALT == <<"t", "o", "t", "a", "l", "t">>
ARTIKELNR == <<"a", "r", "t", "i", "k", "e", "l", "n", "r">>

COL_NAME == 2
COL_QUANTITY == 3
COL_TB == 6
COL_SALES == 8

\* row[k] exists (columns are labelled 0..n-1); otherwise row[k] raises KeyError
HasCol(row, k) == k < Len(row)
Col(row, k) == row[k + 1]

\* str(row[k]).strip()
ColText(row, k) == Strip(CellStr(Col(row, k)))

\* col1 == 'nan' or col1 == ''
IsBlankText(s) == s = NAN_STR \/ s = <<>>

\* mutation: the scan does not stop at the first marker (no break)
FindStartRow_NoBreak(grid) ==
    LET hits == {k \in 1..Len(grid) : ColText(grid[k], 0) = KUNDNR}
    IN  IF hits = {} THEN 0 ELSE CHOOSE k \in hits : \A m \in hits : m <= k

\* the row index after the first row whose column 0 is "Kundnr.", else 0
FindStartRow(grid) ==
    LET hits == {k \in 1..Len(grid) : ColText(grid[k], 0) = KUNDNR}
    IN  IF hits = {} THEN 0 ELSE Leftmost(hits)

\* mutation: the test "quantity != 0" is dropped
KeepQuantity_NoZeroTest(quantity) == NotNa(quantity)

\* the body of "if pd.notna(quantity) and quantity != 0"
KeepQuantity(quantity) == NotNa(quantity) /\ quantity.v # 0

\* mutation: when one of the two amounts is no number, both become 0.0
MakeRecord_JointDefault(row, col1, customer, date) ==
    LET tb_kr == ToNumeric(Col(row, COL_TB))
        sales_ex_vat == ToNumeric(Col(row, COL_SALES))
        both == NotNa(tb_kr) /\ NotNa(sales_ex_vat)
    IN  [date |-> date,
         customer_number |-> customer,
         article_id |-> CanonicalArticleId(col1),
         article_name |-> CleanArticleName(CellStr(Col(row, COL_NAME))),
         quantity |-> ToNumeric(Col(row, COL_QUANTITY)),
         tb_amount |-> IF both THEN tb_kr ELSE Number(0),
         sales_amount |-> IF both THEN sales_ex_vat ELSE Number(0)]

\* the record appended for an article row
MakeRecord(row, col1, customer, date) ==
    LET tb_kr == ToNumeric(Col(row, COL_TB))
        sales_ex_vat == ToNumeric(Col(row, COL_SALES))
    IN  [date |-> date,
         customer_number |-> customer,
         article_id |-> CanonicalArticleId(col1),
         article_name |-> CleanArticleName(CellStr(Col(row, COL_NAME))),
         quantity |-> ToNumeric(Col(row, COL_QUANTITY)),
         tb_amount |-> IF NotNa(tb_kr) THEN tb_kr ELSE Number(0),
         sales_amount |-> IF NotNa(sales_ex_vat) THEN sales_ex_vat ELSE Number(0)]

\* the records of the inner try block: none when a column is missing
\* (KeyError, caught), when int(raw_id) raises (ValueError, caught) or when
\* the quantity is absent or zero
ArticleRecords(row, col1, customer, date) ==
    IF ~(HasCol(row, COL_NAME) /\ HasCol(row, COL_QUANTITY)
            /\ HasCol(row, COL_TB) /\ HasCol(row, COL_SALES))
    THEN <<>>
    ELSE IF CanonicalRaises(col1) THEN <<>>
    ELSE IF KeepQuantity(ToNumeric(Col(row, COL_QUANTITY)))
    THEN <<MakeRecord(row, col1, customer, date)>>
    ELSE <<>>

\* One iteration of the classification loop: the new customer context, the
\* records appended, and whether the iteration raised out of the loop
\* (row[0] and row[1] are read outside the inner try block).
RowStep(customer, row, date) ==
    IF ~(HasCol(row, 0) /\ HasCol(row, 1))
    THEN [customer |-> customer, emit |-> <<>>, raised |-> TRUE]
    ELSE LET col0 == ColText(row, 0)
             col1 == ColText(row, 1)
         IN  IF Contains(Lower(col1), TOTALT)
             THEN [customer |-> customer, emit |-> <<>>, raised |-> FALSE]
             ELSE IF IsDigit(col0) /\ IsBlankText(col1)
             THEN [customer |-> Some(col0), emit |-> <<>>, raised |-> FALSE]
             ELSE IF Contains(Lower(col1), ARTIKELNR)
             THEN [customer |-> customer, emit |-> <<>>, raised |-> FALSE]
             ELSE IF Truthy(customer) /\ ~IsBlankText(col1)
             THEN [customer |-> customer,
                   emit |-> ArticleRecords(row, col1, customer.s, date),
                   raised |-> FALSE]
             ELSE [customer |-> customer, emit |-> <<>>, raised |-> FALSE]

\* the row reaches the inner try block (the tests of lines 124-142)
IsArticleRow(customer, row) ==
    /\ HasCol(row, 0) /\ HasCol(row, 1)
    /\ ~Contains(Lower(ColText(row, 1)), TOTALT)
    /\ ~(IsDigit(ColText(row, 0)) /\ IsBlankText(ColText(row, 1)))
    /\ ~Contains(Lower(ColText(row, 1)), ARTIKELNR)
    /\ Truthy(customer)
    /\ ~IsBlankText(ColText(row, 1))

\* current_customer_id when the loop started at row `from` reaches row k
\* (both 0-based)
RECURSIVE ContextAt(_, _, _)
ContextAt(grid, from, k) ==
    IF k <= from THEN None
    ELSE RowStep(ContextAt(grid, from, k - 1), grid[k], <<>>).customer

(***************************************************************************)
(* Inputs of the parser                                                    *)
(***************************************************************************)
MaxRows == 3

\* a nine-column row; columns 4, 5 and 7 are not read by the parser
Row9(c0, c1, c2, c3, c6, c8) == <<c0, c1, c2, c3, NaNCell, NaNCell, c6, NaNCell, c8>>

ARTICLE_TEXT == TextCell(<<"x", " ", "S", "i", "l", "e", "n", "t", " ", "S", "o", "c", "k", "s", " ", "w">>)

R_HEADER == Row9(TextCell(KUNDNR), NaNCell, NaNCell, NaNCell, NaNCell, NaNCell)
R_CUSTOMER_A == Row9(IntCell(1007), NaNCell, NaNCell, NaNCell, NaNCell, NaNCell)
R_CUSTOMER_B == Row9(TextCell(<<"2", "0">>), NaNCell, NaNCell, NaNCell, NaNCell, NaNCell)
R_ARTICLE == Row9(NaNCell, TextCell(<<"E", "9", "0", "0", "5", ".", "0">>), ARTICLE_TEXT,
                  IntCell(3), FloatCell(155), FloatCell(1200))
R_ARTICLE_DIGITS == Row9(IntCell(1007), IntCell(900), ARTICLE_TEXT,
                         TextCell(<<"-", "2">>), NaNCell, IntCell(120))
R_ARTICLE_ZERO == Row9(NaNCell, TextCell(<<"A", "B", "1", "2">>), NaNCell,
                       IntCell(0), FloatCell(155), FloatCell(1200))
R_ARTICLE_BADQTY == Row9(NaNCell, IntCell(900), ARTICLE_TEXT,
                         TextCell(<<"x">>), FloatCell(155), TextCell(<<"x">>))
R_TOTAL == Row9(NaNCell, TextCell(<<"T", "o", "t", "a", "l", "t", ":">>), NaNCell,
                IntCell(3), FloatCell(155), FloatCell(1200))
R_REPEATED_HEADER == Row9(NaNCell, TextCell(<<"A", "r", "t", "i", "k", "e", "l", "n", "r", ".">>),
                          NaNCell, NaNCell, NaNCell, NaNCell)
R_BLANK == Row9(NaNCell, NaNCell, NaNCell, NaNCell, NaNCell, NaNCell)
\* column 0 is a number and column 1 holds the text " nan"
R_NAN_TEXT == Row9(IntCell(30), TextCell(<<" ", "n", "a", "n">>), ARTICLE_TEXT,
                   IntCell(3), FloatCell(155), FloatCell(1200))

\* an article line whose sales amount is a text that is no number
R_ARTICLE_BADSALES == Row9(NaNCell, TextCell(<<"A", "B", "1", "2">>), NaNCell,
                           FloatCell(15), FloatCell(-20), TextCell(<<"x">>))
\* an article line whose code ends with a superscript two
R_ARTICLE_SUPER == Row9(NaNCell, TextCell(<<"1", SUPER_TWO>>), ARTICLE_TEXT,
                        IntCell(3), FloatCell(155), FloatCell(1200))
\* an article line whose code starts with the word of the column header
R_ARTICLE_HEADER_LIKE ==
    Row9(NaNCell, TextCell(<<"A", "r", "t", "i", "k", "e", "l", "n", "r", ".", "5">>),
         ARTICLE_TEXT, IntCell(3), FloatCell(155), FloatCell(1200))

RowPool == {R_HEADER, R_CUSTOMER_A, R_CUSTOMER_B, R_ARTICLE, R_ARTICLE_DIGITS,
            R_ARTICLE_ZERO, R_ARTICLE_BADQTY, R_TOTAL, R_REPEATED_HEADER,
            R_BLANK, R_NAN_TEXT, R_ARTICLE_BADSALES, R_ARTICLE_SUPER,
            R_ARTICLE_HEADER_LIKE}

\* sheets with one used column, with four, and with the full nine
FULL_WIDTH == 9
ColumnCounts == {1, 4, FULL_WIDTH}

\* the grid of a sheet with w used columns
Grid(rows, w) == [k \in 1..Len(rows) |-> SubSeq(rows[k], 1, w)]

NAME_PRODUCT == <<"S", "i", "l", "e", "n", "t", " ", "s", "o", "c", "k", "s", " ", "2", "5", "0", "1", "0", "1", "-", "2", "5", "0", "1", "3", "1", ".", "x", "l", "s", "x">>
NAME_RANGE == <<"s", "t", "a", "t", " ", "2", "5", "0", "2", "0", "1", "-", "2", "5", "0", "2", "2", "8", ".", "x", "l", "s", "x">>
NAME_PLAIN == <<"s", "a", "l", "e", "s", ".", "x", "l", "s", "x">>
NAME_NO_DATE == <<"S", "i", "l", "e", "n", "t", " ", "s", "o", "c", "k", "s", " ", "2", "5", "0", "0", "0", "0", ".", "x", "l", "s", "x">>

FileNames == {NAME_PRODUCT, NAME_RANGE, NAME_PLAIN, NAME_NO_DATE}

\* values of pd.Timestamp.now().strftime('%Y-%m-%d')
Todays == {<<"2", "0", "2", "6", "-", "1", "1", "-", "0", "5">>}

\* an uploaded spreadsheet; readable is FALSE when pd.read_excel raises
SalesFile(name, grid) ==
    [name |-> name, readable |-> TRUE, grid |-> grid, labels |-> {}, rows |-> <<>>]
UnreadableFile(name) ==
    [name |-> name, readable |-> FALSE, grid |-> <<>>, labels |-> {}, rows |-> <<>>]

(***************************************************************************)
(* process_sales_file, one action per step (data_processor.py 58-207)      *)
(***************************************************************************)
Init ==
    /\ \/ \E n \in 0..MaxRows :
              \E rows \in [1..n -> RowPool] :
                  uploaded_file = SalesFile(NAME_PRODUCT, Grid(rows, FULL_WIDTH))
       \/ \E n \in 0..(MaxRows - 1), w \in ColumnCounts, name \in FileNames :
              \E rows \in [1..n -> RowPool] :
                  uploaded_file = SalesFile(name, Grid(rows, w))
       \/ uploaded_file = UnreadableFile(NAME_PLAIN)
    /\ df_raw = <<>>
    /\ file_date = <<>>
    /\ start_row = 0
    /\ i = 0
    /\ current_customer_id = None
    /\ records = <<>>
    /\ emitted_at = <<>>
    /\ pc = "read"
    /\ customers = <<>>
    /\ sales = <<>>
    /\ settings = <<>>
    /\ last_upsert = <<>>
    /\ last_setting = <<>>
    /\ last_call = NoCall
    /\ BatchIdle
    /\ NormIdle

\* line 68: pd.read_excel(uploaded_file, header=None); a failure is re-raised
\* as ValueError by the outer handler (206-207)
ReadExcel ==
    /\ pc = "read"
    /\ IF uploaded_file.readable
       THEN df_raw' = uploaded_file.grid /\ pc' = "period"
       ELSE df_raw' = df_raw /\ pc' = "raised"
    /\ UNCHANGED <<uploaded_file, file_date, start_row, i, current_customer_id,
                   records, emitted_at>>
    /\ UNCHANGED <<store_vars, history_vars, batch_vars, norm_vars>>

\* lines 73-98
ExtractPeriod ==
    /\ pc = "period"
    /\ \E today \in Todays : file_date' = ExtractFileDate(uploaded_file.name, today)
    /\ pc' = "seek"
    /\ UNCHANGED <<uploaded_file, df_raw, start_row, i, current_customer_id,
                   records, emitted_at>>
    /\ UNCHANGED <<store_vars, history_vars, batch_vars, norm_vars>>

\* lines 100-115
FindHeader ==
    /\ pc = "seek"
    /\ start_row' = FindStartRow(df_raw)
    /\ i' = FindStartRow(df_raw)
    /\ records' = <<>>
    /\ emitted_at' = <<>>
    /\ current_customer_id' = None
    /\ pc' = "classify"
    /\ UNCHANGED <<uploaded_file, df_raw, file_date>>
    /\ UNCHANGED <<store_vars, history_vars, batch_vars, norm_vars>>

\* lines 118-202, one iteration
ClassifyRow ==
    /\ pc = "classify"
    /\ i < Len(df_raw)
    /\ LET r == RowStep(current_customer_id, df_raw[i + 1], file_date)
       IN  IF r.raised
           THEN /\ pc' = "raised"
                /\ UNCHANGED <<i, current_customer_id, records, emitted_at>>
           ELSE /\ current_customer_id' = r.customer
                /\ records' = records \o r.emit
                /\ emitted_at' = emitted_at \o [k \in 1..Len(r.emit) |-> i]
                /\ i' = i + 1
                /\ pc' = pc
    /\ UNCHANGED <<uploaded_file, df_raw, file_date, start_row>>
    /\ UNCHANGED <<store_vars, history_vars, batch_vars, norm_vars>>

\* line 204: return pd.DataFrame(records)
Return ==
    /\ pc = "classify"
    /\ i >= Len(df_raw)
    /\ pc' = "done"
    /\ UNCHANGED <<uploaded_file, df_raw, file_date, start_row, i,
                   current_customer_id, records, emitted_at>>
    /\ UNCHANGED <<store_vars, history_vars, batch_vars, norm_vars>>

Next == ReadExcel \/ ExtractPeriod \/ FindHeader \/ ClassifyRow \/ Return

Spec == Init /\ [][Next]_vars

(***************************************************************************)
(* Properties of process_sales_file                                        *)
(***************************************************************************)
\* the cell holds nothing: an empty cell or a text of whitespace only
CellIsEmpty(cell) == cell.t = "nan" \/ (cell.t = "str" /\ Strip(cell.s) = <<>>)

\* column 0 of the row is exactly the customer-column header marker
IsMarkerRow(row) == HasCol(row, 0) /\ CellStr(Col(row, 0)) = KUNDNR

\* C1: if no row of the grid has column 0 equal to "Kundnr.", the parser
\* raises no error and returns zero records.
C1_NoMarkerNoRecords ==
    (/\ uploaded_file.readable
     /\ \A k \in 1..Len(uploaded_file.grid) : ~IsMarkerRow(uploaded_file.grid[k]))
        => /\ pc # "raised"
           /\ pc = "done" => records = <<>>

\* C2: every emitted record has a non-empty article_id, a quantity that is
\* present and not 0, and the date derived from the filename.
C2_RecordInvariant ==
    /\ pc \in {"seek", "classify", "done"} =>
           \E today \in Todays : file_date = ExtractFileDate(uploaded_file.name, today)
    /\ \A k \in 1..Len(records) :
           /\ records[k].article_id # <<>>
           /\ NotNa(records[k].quantity)
           /\ records[k].quantity.v # 0
           /\ records[k].date = file_date

\* two records were returned, one of them with a negative quantity
C2_Witness ==
    /\ pc = "done"
    /\ Len(records) >= 2
    /\ \E k \in 1..Len(records) : records[k].quantity.v < 0

\* row k (0-based) is a customer-header row: column 0 a run of digits and
\* column 1 empty
IsCustomerHeader(grid, k) ==
    /\ HasCol(grid[k + 1], 1)
    /\ IsDigit(ColText(grid[k + 1], 0))
    /\ CellIsEmpty(Col(grid[k + 1], 1))

\* the customer-header rows from row `from` up to, not including, row `at`
HeadersAbove(grid, from, at) == {k \in from..(at - 1) : IsCustomerHeader(grid, k)}

\* C3: a customer-header row emits no record, and every record carries
\* column 0 of the nearest customer-header row above its source row.
C3_NearestCustomerHeader ==
    \A n \in 1..Len(records) :
        LET above == HeadersAbove(df_raw, start_row, emitted_at[n])
        IN  /\ ~IsCustomerHeader(df_raw, emitted_at[n])
            /\ above # {}
            /\ records[n].customer_number =
                   ColText(df_raw[(CHOOSE k \in above : \A m \in above : m <= k) + 1], 0)

\* C4: whatever the number of columns and the cell contents, a readable
\* grid never makes process_sales_file raise.
C4_RowFailureNeverRaises == uploaded_file.readable => pc # "raised"

\* the rows the classification loop has gone through
Classified == IF pc \in {"classify", "done", "raised"} THEN start_row..(i - 1) ELSE {}

\* the records emitted for row k
EmittedFor(k) == {n \in 1..Len(records) : emitted_at[n] = k}

\* the number in the cell, 0.0 when the cell holds no number
AmountOrZero(cell) == IF NotNa(ToNumeric(cell)) THEN ToNumeric(cell) ELSE Number(0)

\* quantity is absent, unparseable or zero
QuantityUnusable(row) ==
    ~HasCol(row, COL_QUANTITY)
        \/ ~NotNa(ToNumeric(Col(row, COL_QUANTITY)))
        \/ ToNumeric(Col(row, COL_QUANTITY)).v = 0

\* extracting the fields of the row raises: a column is missing, or int()
\* rejects an article code that isdigit() accepted
ExtractionRaises(row) ==
    \/ \E c \in {COL_NAME, COL_QUANTITY, COL_TB, COL_SALES} : ~HasCol(row, c)
    \/ CanonicalRaises(ColText(row, 1))

\* an article line that is kept gives one record with its quantity, and
\* with each amount parsed, or 0.0 when the cell holds no number
KeptAsRecord(k) ==
    LET row == df_raw[k + 1]
    IN  /\ Cardinality(EmittedFor(k)) = 1
        /\ \A n \in EmittedFor(k) :
               /\ records[n].quantity = ToNumeric(Col(row, COL_QUANTITY))
               /\ records[n].tb_amount = AmountOrZero(Col(row, COL_TB))
               /\ records[n].sales_amount = AmountOrZero(Col(row, COL_SALES))
               /\ Some(records[n].customer_number) = ContextAt(df_raw, start_row, k)

\* C16 as stated: an article line under a current customer is dropped
\* exactly when its quantity is absent, unparseable or zero, and a kept
\* line has each amount parsed or 0.0; no article line raises.
C16_DroppedOnlyForQuantity ==
    /\ \A k \in Classified :
           IsArticleRow(ContextAt(df_raw, start_row, k), df_raw[k + 1]) =>
               IF QuantityUnusable(df_raw[k + 1])
               THEN EmittedFor(k) = {}
               ELSE KeptAsRecord(k)
    /\ (pc = "raised" /\ uploaded_file.readable) =>
           ~IsArticleRow(ContextAt(df_raw, start_row, i), df_raw[i + 1])

\* C16, amended: an article line under a current customer is dropped
\* exactly when its quantity is absent, unparseable or zero or when
\* extracting its fields raises (a missing column, an article code int()
\* rejects); a kept line has each amount, independently of the other, parsed
\* or 0.0; no article line makes the parser raise.
C16_NumericCoercion ==
    /\ \A k \in Classified :
           IsArticleRow(ContextAt(df_raw, start_row, k), df_raw[k + 1]) =>
               IF QuantityUnusable(df_raw[k + 1]) \/ ExtractionRaises(df_raw[k + 1])
               THEN EmittedFor(k) = {}
               ELSE KeptAsRecord(k)
    /\ (pc = "raised" /\ uploaded_file.readable) =>
           ~IsArticleRow(ContextAt(df_raw, start_row, i), df_raw[i + 1])

\* below the header, an article line with a sales amount that is no number
\* was kept: its sales amount is 0.0 and its tb amount is the parsed number
C16_Witness ==
    /\ pc = "done"
    /\ start_row >= 1
    /\ \E n \in 1..Len(records) :
           /\ Col(df_raw[emitted_at[n] + 1], COL_SALES).t = "str"
           /\ records[n].sales_amount = Number(0)
           /\ records[n].tb_amount = Number(-20)

\* the text is the header of the article column, whatever its case
IsHeaderText(t) == Lower(t) \in {ARTIKELNR, ARTIKELNR \o <<".">>}

\* the text contains the marker of the total row, whatever its case
IsTotalText(t) == Contains(Lower(t), TOTALT)

\* row k is handled as an article line of customer c: it is dropped or
\* kept by its own fields, and the current customer stays c
TreatedAsArticleLine(k, c) ==
    /\ ContextAt(df_raw, start_row, k + 1) = c
    /\ IF QuantityUnusable(df_raw[k + 1]) \/ ExtractionRaises(df_raw[k + 1])
       THEN EmittedFor(k) = {}
       ELSE KeptAsRecord(k)

\* row k emits no record and leaves the current customer c as it is
Skipped(k, c) ==
    /\ EmittedFor(k) = {}
    /\ ContextAt(df_raw, start_row, k + 1) = c

\* C17: a row whose column 1 equals the article-column header (case
\* ignored) or contains the total marker (case ignored) is skipped: no
\* record, current customer unchanged; every other row with non-empty
\* column 1 under a current customer is handled as an article line.
C17_HeaderAndTotalRows ==
    \A k \in Classified :
        LET c == ContextAt(df_raw, start_row, k)
            t == ColText(df_raw[k + 1], 1)
        IN  IF IsHeaderText(t) \/ IsTotalText(t)
            THEN Skipped(k, c)
            ELSE (Truthy(c) /\ ~CellIsEmpty(Col(df_raw[k + 1], 1))) =>
                     TreatedAsArticleLine(k, c)

\* the rows (counted from 1) whose column 0 is exactly the marker "Kundnr."
MarkerRows(grid) == {k \in 1..Len(grid) : IsMarkerRow(grid[k])}

C19_DigitsWithTextIsNoCustomer ==
    \A k \in Classified :
        LET c == ContextAt(df_raw, start_row, k)
            t == ColText(df_raw[k + 1], 1)
        IN  (/\ IsDecimal(ColText(df_raw[k + 1], 0))
             /\ ~CellIsEmpty(Col(df_raw[k + 1], 1))
             /\ ~Contains(Lower(t), ARTIKELNR)
             /\ ~IsTotalText(t)) =>
                /\ ContextAt(df_raw, start_row, k + 1) = c
                /\ IF Truthy(c) THEN TreatedAsArticleLine(k, c) ELSE EmittedFor(k) = {}

(***************************************************************************)
(* Persistence layer (database.py)                                         *)
(***************************************************************************)
CustomerColumns == {"customer_number", "name", "address", "zip_code", "city",
                    "country", "customer_group"}

\* df.empty: no rows or no columns
CustomersEmpty(df) == df.rows = <<>> \/ df.cols = {}

\* row.get(col): the cell, or absent when the frame has no such column
Get(df, row, col) ==
    IF col \in df.cols THEN [absent |-> FALSE, cell |-> row[col]]
    ELSE [absent |-> TRUE, cell |-> NaNCell]

\* str(row.get(col, ''))
StrOrDefault(g) == IF g.absent THEN <<>> ELSE CellStr(g.cell)

\* the value SQLite stores in a TEXT column for row.get(col): NULL for None
\* and for NaN, the text of the value otherwise
BindText(g) == IF g.absent \/ g.cell.t = "nan" THEN None ELSE Some(CellStr(g.cell))

\* sqlite3 has no adapter for a datetime.time: binding it raises
BindRaises(g) == ~g.absent /\ g.cell.t = "time"

\* the parameter tuple of the INSERT (database.py 85-93)
CustomerParams(df, row) ==
    [customer_number |-> StrOrDefault(Get(df, row, "customer_number")),
     name |-> BindText(Get(df, row, "name")),
     address |-> BindText(Get(df, row, "address")),
     zip_code |-> Some(StrOrDefault(Get(df, row, "zip_code"))),
     city |-> BindText(Get(df, row, "city")),
     country |-> BindText(Get(df, row, "country")),
     customer_group |-> BindText(Get(df, row, "customer_group"))]

ParamsRaise(df, row) ==
    \E col \in {"name", "address", "city", "country", "customer_group"} :
        BindRaises(Get(df, row, col))

\* mutation: on conflict only the fields that are not NULL are taken over
Upsert_Merge(table, p) ==
    LET hits == {k \in 1..Len(table) : table[k].customer_number = p.customer_number}
        Pick(new, old) == IF new.null THEN old ELSE new
    IN  IF hits = {} THEN Append(table, p)
        ELSE [k \in 1..Len(table) |->
                 IF k \in hits
                 THEN [table[k] EXCEPT !.name = Pick(p.name, @),
                                       !.address = Pick(p.address, @),
                                       !.zip_code = p.zip_code,
                                       !.city = Pick(p.city, @),
                                       !.country = Pick(p.country, @),
                                       !.customer_group = Pick(p.customer_group, @)]
                 ELSE table[k]]

\* INSERT ... ON CONFLICT(customer_number) DO UPDATE SET ... (database.py 75-84)
Upsert(table, p) ==
    LET hits == {k \in 1..Len(table) : table[k].customer_number = p.customer_number}
    IN  IF hits = {} THEN Append(table, p)
        ELSE [k \in 1..Len(table) |->
                 IF k \in hits
                 THEN [table[k] EXCEPT !.name = p.name,
                                       !.address = p.address,
                                       !.zip_code = p.zip_code,
                                       !.city = p.city,
                                       !.country = p.country,
                                       !.customer_group = p.customer_group]
                 ELSE table[k]]

\* the loop of save_customers from row k on: the table inside the open
\* transaction, the number of INSERTs executed, and whether a bind raised
RECURSIVE UpsertFrom(_, _, _, _)
UpsertFrom(table, df, k, done) ==
    IF k > Len(df.rows) THEN [table |-> table, executed |-> done, raised |-> FALSE]
    ELSE IF ParamsRaise(df, df.rows[k])
    THEN [table |-> table, executed |-> done, raised |-> TRUE]
    ELSE UpsertFrom(Upsert(table, CustomerParams(df, df.rows[k])), df, k + 1, done + 1)

\* save_customers (database.py 61-96).  When a bind raises, commit() and
\* close() are skipped: the uncommitted rows are lost, and if an INSERT was
\* executed the abandoned connection keeps its write lock (leaked).
SaveCustomersResult(table, df) ==
    IF CustomersEmpty(df)
    THEN [table |-> table, raised |-> FALSE, leaked |-> FALSE]
    ELSE LET r == UpsertFrom(table, df, 1, 0)
         IN  IF r.raised
             THEN [table |-> table, raised |-> TRUE, leaked |-> r.executed > 0]
             ELSE [table |-> r.table, raised |-> FALSE, leaked |-> FALSE]

\* data_to_save['source_file'] = source_filename (database.py 108-109)
TagSource(r, source_filename) ==
    [date |-> r.date, customer_number |-> r.customer_number,
     article_id |-> r.article_id, article_name |-> r.article_name,
     quantity |-> r.quantity, tb_amount |-> r.tb_amount,
     sales_amount |-> r.sales_amount, source_file |-> source_filename]

\* mutation: rows already stored are not stored again
SaveSalesDataResult_Dedup(table, df, source_filename) ==
    table \o SelectSeq([k \in 1..Len(df) |-> TagSource(df[k], source_filename)],
                       LAMBDA r : \A k \in 1..Len(table) : table[k] # r)

\* save_sales_data (database.py 98-116): to_sql(..., if_exists='append')
SaveSalesDataResult(table, df, source_filename) ==
    IF df = <<>> THEN table
    ELSE table \o [k \in 1..Len(df) |-> TagSource(df[k], source_filename)]

\* a text of the form YYYY-MM-DD
IsDateShaped(d) ==
    /\ Len(d) = 10
    /\ d[5] = "-" /\ d[8] = "-"
    /\ \A k \in {1, 2, 3, 4, 6, 7, 9, 10} : IsDecimalChar(d[k])

DateYear(d) == DigitsToInt(SubSeq(d, 1, 4))
DateMonth(d) == DigitsToInt(SubSeq(d, 6, 7))
DateDay(d) == DigitsToInt(SubSeq(d, 9, 10))

IsLeapYear(y) == y % 4 = 0 /\ (y % 100 # 0 \/ y % 400 = 0)

DaysInMonth(y, m) ==
    IF m = 2 THEN (IF IsLeapYear(y) THEN 29 ELSE 28)
    ELSE IF m \in {4, 6, 9, 11} THEN 30 ELSE 31

\* pd.to_datetime accepts the text: it names a day of the calendar
IsCalendarDate(d) ==
    /\ IsDateShaped(d)
    /\ DateMonth(d) \in 1..12
    /\ DateDay(d) \in 1..DaysInMonth(DateYear(d), DateMonth(d))

\* pd.to_datetime(text)
ToDatetime(d) == [year |-> DateYear(d), month |-> DateMonth(d), day |-> DateDay(d)]

\* one row of the SELECT (database.py 125-137)
JoinRow(s, name, country, customer_group, city) ==
    [date |-> s.date, article_id |-> s.article_id, article |-> s.article_name,
     customer_number |-> s.customer_number, quantity |-> s.quantity,
     tb_amount |-> s.tb_amount, sales_amount |-> s.sales_amount,
     total_amount |-> s.sales_amount,
     customer |-> name, country |-> country,
     customer_group |-> customer_group, city |-> city]

\* the rows of "s LEFT JOIN customers c ON s.customer_number =
\* c.customer_number" for one sales row s
RowsFor(s, ctable) ==
    LET matches == SelectSeq(ctable, LAMBDA c : c.customer_number = s.customer_number)
    IN  IF matches = <<>> THEN <<JoinRow(s, None, None, None, None)>>
        ELSE [k \in 1..Len(matches) |->
                 JoinRow(s, matches[k].name, matches[k].country,
                         matches[k].customer_group, matches[k].city)]

RECURSIVE LeftJoin(_, _)
LeftJoin(stable, ctable) ==
    IF stable = <<>> THEN <<>>
    ELSE RowsFor(Head(stable), ctable) \o LeftJoin(Tail(stable), ctable)

\* get_all_data (database.py 118-151): when pd.to_datetime raises, the
\* handler prints the error and an empty DataFrame is returned
GetAllData(stable, ctable) ==
    LET joined == LeftJoin(stable, ctable)
    IN  IF \A k \in 1..Len(joined) : IsCalendarDate(joined[k].date)
        THEN [k \in 1..Len(joined) |-> [joined[k] EXCEPT !.date = ToDatetime(@)]]
        ELSE <<>>

\* the try block of get_all_data raises: pd.to_datetime (line 144) meets a
\* stored date text that is no calendar date
ReadRaisesInside(stable, ctable) ==
    \E k \in 1..Len(LeftJoin(stable, ctable)) :
        ~IsCalendarDate(LeftJoin(stable, ctable)[k].date)

\* what the caller of get_all_data gets: "except Exception" (146-148)
\* catches whatever the try block raises, so the call always returns
GetAllDataOutcome(stable, ctable) ==
    [raised |-> FALSE, df |-> GetAllData(stable, ctable)]

\* get_customer_count (database.py 153-159)
GetCustomerCount(ctable) == Len(ctable)

\* mutation: the key is inserted again instead of being updated
SaveSettingResult_NoUpdate(table, key, value) ==
    IF \E k \in 1..Len(table) : table[k].key = key THEN table
    ELSE Append(table, [key |-> key, value |-> value])

\* save_setting (database.py 170-180)
SaveSettingResult(table, key, value) ==
    LET hits == {k \in 1..Len(table) : table[k].key = key}
    IN  IF hits = {} THEN Append(table, [key |-> key, value |-> value])
        ELSE [k \in 1..Len(table) |->
                 IF k \in hits THEN [table[k] EXCEPT !.value = value] ELSE table[k]]

\* get_setting (database.py 182-189): fetchone(), None when there is no row
GetSetting(table, key) ==
    LET found == SelectSeq(table, LAMBDA r : r.key = key)
    IN  IF found = <<>> THEN None ELSE Some(Head(found).value)

\* delete_setting (database.py 191-197)
DeleteSettingResult(table, key) == SelectSeq(table, LAMBDA r : r.key # key)

(***************************************************************************)
(* The parsers as functions of the file                                    *)
(***************************************************************************)
\* the classification loop from row k (0-based) on
RECURSIVE ClassifyFrom(_, _, _, _, _)
ClassifyFrom(grid, k, customer, date, acc) ==
    IF k >= Len(grid) THEN [raised |-> FALSE, records |-> acc]
    ELSE LET r == RowStep(customer, grid[k + 1], date)
         IN  IF r.raised THEN [raised |-> TRUE, records |-> <<>>]
             ELSE ClassifyFrom(grid, k + 1, r.customer, date, acc \o r.emit)

\* process_sales_file (data_processor.py 58-207): the DataFrame of records,
\* or raised when ValueError is raised
ProcessSalesFile(file, today) ==
    IF ~file.readable THEN [raised |-> TRUE, records |-> <<>>]
    ELSE ClassifyFrom(file.grid, FindStartRow(file.grid), None,
                      ExtractFileDate(file.name, today), <<>>)

\* column_map (data_processor.py 30-38)
COLUMN_MAP ==
    [label \in {"Kundnummer", "Namn", "Adress", "Postnummer", "Postort", "Land",
                "Kundgrupp"} |->
        CASE label = "Kundnummer" -> "customer_number"
          [] label = "Namn" -> "name"
          [] label = "Adress" -> "address"
          [] label = "Postnummer" -> "zip_code"
          [] label = "Postort" -> "city"
          [] label = "Land" -> "country"
          [] label = "Kundgrupp" -> "customer_group"]

\* a customer registry: the labels of its header row and its data rows
CustomerFile(name, labels, rows) ==
    [name |-> name, readable |-> TRUE, grid |-> <<>>, labels |-> labels, rows |-> rows]

\* process_customer_file (data_processor.py 17-56): keep and rename the known
\* columns, drop the rows without customer number, render the number as
\* stripped text; raised when ValueError is raised
ProcessCustomerFile(file) ==
    LET keep == {c \in file.labels : c \in DOMAIN COLUMN_MAP}
        cols == {COLUMN_MAP[c] : c \in keep}
        LabelOf(col) == CHOOSE c \in keep : COLUMN_MAP[c] = col
        kept == SelectSeq(file.rows, LAMBDA r : r["Kundnummer"].t # "nan")
        Clean(r) == [col \in cols |->
                        IF col = "customer_number"
                        THEN TextCell(Strip(CellStr(r["Kundnummer"])))
                        ELSE r[LabelOf(col)]]
    IN  IF ~file.readable \/ "customer_number" \notin cols
        THEN [raised |-> TRUE, df |-> [cols |-> {}, rows |-> <<>>]]
        ELSE [raised |-> FALSE,
              df |-> [cols |-> cols, rows |-> [k \in 1..Len(kept) |-> Clean(kept[k])]]]

(***************************************************************************)
(* Inputs of the persistence layer                                         *)
(***************************************************************************)
MaxCustomerRows == 2
MaxSales == 3

T_A == TextCell(<<"A">>)
T_B == TextCell(<<"B">>)
T_X == TextCell(<<"X">>)
T_Y == TextCell(<<"Y">>)
NUMBER_1007 == <<"1", "0", "0", "7">>
NUMBER_20 == <<"2", "0">>

CustomerRow(number, name, zip, city, country) ==
    [col \in CustomerColumns |->
        CASE col = "customer_number" -> number
          [] col = "name" -> name
          [] col = "zip_code" -> zip
          [] col = "city" -> city
          [] col = "country" -> country
          [] OTHER -> NaNCell]

CustomerRowPool ==
    {CustomerRow(TextCell(NUMBER_1007), T_A, IntCell(11), T_X, T_Y),
     CustomerRow(TextCell(NUMBER_1007), NaNCell, NaNCell, T_Y, NaNCell),
     CustomerRow(TextCell(NUMBER_20), T_B, FloatCell(125), NaNCell, T_X)}

\* the frame has every column, or only the number and the name
ColumnChoices == {CustomerColumns, {"customer_number", "name"}}

Restrict(f, S) == [x \in S |-> f[x]]

CustomerFrames ==
    UNION {{[cols |-> cols, rows |-> [k \in 1..n |-> Restrict(rows[k], cols)]] :
               rows \in [1..n -> CustomerRowPool]} :
           <<n, cols>> \in (0..MaxCustomerRows) \X ColumnChoices}

CustomerKeys == {NUMBER_1007, NUMBER_20}

\* three sales files, and the frames process_sales_file returns for them
SalesUploads ==
    {SalesFile(NAME_PRODUCT, Grid(<<R_CUSTOMER_A, R_ARTICLE>>, FULL_WIDTH)),
     SalesFile(NAME_NO_DATE, Grid(<<R_CUSTOMER_B, R_ARTICLE, R_ARTICLE_DIGITS>>, FULL_WIDTH)),
     SalesFile(NAME_RANGE, Grid(<<R_HEADER, R_ARTICLE>>, FULL_WIDTH))}

SalesFrames ==
    {[name |-> file.name, df |-> ProcessSalesFile(file, today).records] :
        <<file, today>> \in {ft \in SalesUploads \X Todays :
                                ~ProcessSalesFile(ft[1], ft[2]).raised}}

SettingKeys == {"gemini_api_key", "openai_api_key"}
\* the text typed into the key field; it may be empty
SettingValues == {<<>>, <<"v", "1">>, <<"v", "2">>}

(***************************************************************************)
(* The persistence operations as actions on the database                   *)
(***************************************************************************)
\* no file is being parsed
ParserIdle ==
    /\ uploaded_file = UnreadableFile(<<>>)
    /\ df_raw = <<>>
    /\ file_date = <<>>
    /\ start_row = 0
    /\ i = 0
    /\ current_customer_id = None
    /\ records = <<>>
    /\ emitted_at = <<>>
    /\ pc = "idle"

NeverUpserted == [seen |-> FALSE, cols |-> {}, row |-> <<>>]

\* the database after init_db on a new file (database.py 7-59)
InitStore ==
    /\ ParserIdle
    /\ customers = <<>>
    /\ sales = <<>>
    /\ settings = <<>>
    /\ last_upsert = [key \in CustomerKeys |-> NeverUpserted]
    /\ last_setting = [key \in SettingKeys |-> None]
    /\ last_call = NoCall
    /\ BatchIdle
    /\ NormIdle

\* the customer number bound for row k of df
KeyOfRow(df, k) == CustomerParams(df, df.rows[k]).customer_number

\* history: the last row of df for each customer number it holds
LastUpsertAfter(before, df) ==
    [key \in CustomerKeys |->
        LET mine == {k \in 1..Len(df.rows) : KeyOfRow(df, k) = key}
        IN  IF CustomersEmpty(df) \/ mine = {} THEN before[key]
            ELSE [seen |-> TRUE, cols |-> df.cols,
                  row |-> df.rows[CHOOSE k \in mine : \A m \in mine : m <= k]]]

\* history: some INSERT of the call met an existing row
MetConflict(table, df) ==
    /\ ~CustomersEmpty(df)
    /\ \E k \in 1..Len(df.rows) :
           \/ \E j \in 1..Len(table) : table[j].customer_number = KeyOfRow(df, k)
           \/ \E j \in 1..(k - 1) : KeyOfRow(df, j) = KeyOfRow(df, k)

\* save_customers(df) returning normally
SaveCustomers(df) ==
    LET r == SaveCustomersResult(customers, df)
    IN  /\ ~r.raised
        /\ customers' = r.table
        /\ last_upsert' = LastUpsertAfter(last_upsert, df)
        /\ last_call' = [op |-> "save_customers", replaced |-> MetConflict(customers, df)]
        /\ UNCHANGED <<norm_vars, parser_vars, batch_vars, sales, settings, last_setting>>

\* save_sales_data(df, source_filename)
SaveSalesData(df, source_filename) ==
    /\ Len(sales) + Len(df) <= MaxSales
    /\ sales' = SaveSalesDataResult(sales, df, source_filename)
    /\ last_call' = [op |-> "save_sales_data", replaced |-> FALSE]
    /\ UNCHANGED <<norm_vars, parser_vars, batch_vars, customers, settings, last_upsert, last_setting>>

\* mutation: only the sales rows are deleted
ClearDatabase_SalesOnly ==
    /\ sales' = <<>>
    /\ last_upsert' = [key \in CustomerKeys |-> NeverUpserted]
    /\ last_call' = [op |-> "clear_database", replaced |-> FALSE]
    /\ UNCHANGED <<norm_vars, parser_vars, batch_vars, customers, settings, last_setting>>

\* clear_database (database.py 161-168)
ClearDatabase ==
    /\ sales' = <<>>
    /\ customers' = <<>>
    /\ last_upsert' = [key \in CustomerKeys |-> NeverUpserted]
    /\ last_call' = [op |-> "clear_database", replaced |-> FALSE]
    /\ UNCHANGED <<norm_vars, parser_vars, batch_vars, settings, last_setting>>

\* save_setting(key, value)
SaveSetting(key, value) ==
    /\ settings' = SaveSettingResult(settings, key, value)
    /\ last_setting' = [last_setting EXCEPT ![key] = Some(value)]
    /\ last_call' = [op |-> "save_setting",
                     replaced |-> \E k \in 1..Len(settings) : settings[k].key = key]
    /\ UNCHANGED <<norm_vars, parser_vars, batch_vars, customers, sales, last_upsert>>

\* delete_setting(key)
DeleteSetting(key) ==
    /\ settings' = DeleteSettingResult(settings, key)
    /\ last_setting' = [last_setting EXCEPT ![key] = None]
    /\ last_call' = [op |-> "delete_setting",
                     replaced |-> \E k \in 1..Len(settings) : settings[k].key = key]
    /\ UNCHANGED <<norm_vars, parser_vars, batch_vars, customers, sales, last_upsert>>

ImportCustomers == \E df \in CustomerFrames : SaveCustomers(df)

ImportSales == \E frame \in SalesFrames : SaveSalesData(frame.df, frame.name)

ChangeSetting ==
    \E key \in SettingKeys :
        \/ \E value \in SettingValues : SaveSetting(key, value)
        \/ DeleteSetting(key)

NextStore == ImportCustomers \/ ImportSales \/ ClearDatabase \/ ChangeSetting

SpecStore == InitStore /\ [][NextStore]_vars

(***************************************************************************)
(* Properties of the persistence layer                                     *)
(***************************************************************************)
RowsWithNumber(table, key) == {k \in 1..Len(table) : table[k].customer_number = key}

\* C6: the customers table holds at most one row per customer number, and
\* that row holds exactly the fields of the most recent upsert of the number.
C6_UpsertLastWins ==
    /\ \A k \in 1..Len(customers) : customers[k].customer_number \in CustomerKeys
    /\ \A key \in CustomerKeys :
           /\ Cardinality(RowsWithNumber(customers, key)) <= 1
           /\ last_upsert[key].seen <=> RowsWithNumber(customers, key) # {}
           /\ \A k \in RowsWithNumber(customers, key) :
                  customers[k] =
                      CustomerParams([cols |-> last_upsert[key].cols,
                                      rows |-> <<last_upsert[key].row>>],
                                     last_upsert[key].row)

\* an import met an existing row, whose name and country it replaced by NULL
C6_Witness ==
    /\ last_call.op = "save_customers"
    /\ last_call.replaced
    /\ \E k \in 1..Len(customers) :
           /\ customers[k].customer_number = NUMBER_1007
           /\ customers[k].name = None
           /\ customers[k].country = None
           /\ customers[k].city # None

\* C7: save_sales_data with k records adds exactly k rows after the rows
\* already stored, which stay as they were, and every added row carries the
\* source filename of the call.
C7_AppendIsCumulative ==
    [][\A frame \in SalesFrames :
           SaveSalesData(frame.df, frame.name) =>
               /\ Len(sales') = Len(sales) + Len(frame.df)
               /\ SubSeq(sales', 1, Len(sales)) = sales
               /\ \A k \in (Len(sales) + 1)..Len(sales') :
                      sales'[k].source_file = frame.name]_vars

\* the same file was imported twice: its row is stored twice
C7_Witness ==
    /\ last_call.op = "save_sales_data"
    /\ \E j, k \in 1..Len(sales) : j < k /\ sales[j] = sales[k]

\* C8: get_all_data returns exactly one row per stored sales row, in order;
\* a sales row without customer row has NULL customer fields.
C8_ReadAllKeepsEveryRow ==
    LET out == GetAllData(sales, customers)
    IN  /\ Len(out) = Len(sales)
        /\ \A k \in 1..Len(out) :
               /\ out[k].customer_number = sales[k].customer_number
               /\ out[k].article_id = sales[k].article_id
               /\ out[k].quantity = sales[k].quantity
               /\ RowsWithNumber(customers, sales[k].customer_number) = {} =>
                      /\ out[k].customer = None
                      /\ out[k].country = None
                      /\ out[k].customer_group = None
                      /\ out[k].city = None

\* C9: clear_database empties sales and customers and leaves the settings
\* alone; save_setting and delete_setting leave sales and customers alone.
C9_ClearAndSettingsFrames ==
    [][/\ ClearDatabase =>
              /\ sales' = <<>>
              /\ customers' = <<>>
              /\ GetAllData(sales', customers') = <<>>
              /\ GetCustomerCount(customers') = 0
              /\ settings' = settings
       /\ ChangeSetting => (sales' = sales /\ customers' = customers)]_vars

\* the database was cleared while a setting was stored
C9_Witness ==
    /\ last_call.op = "clear_database"
    /\ settings # <<>>
    /\ sales = <<>>
    /\ customers = <<>>

\* C10: get_setting(k) is the value of the last save_setting(k, v) that no
\* delete_setting(k) followed, None otherwise; there is at most one row per
\* key.
C10_SettingsLastWriteWins ==
    \A key \in SettingKeys :
        /\ GetSetting(settings, key) = last_setting[key]
        /\ Cardinality({k \in 1..Len(settings) : settings[k].key = key}) <= 1

\* a stored key was saved again, and the other key holds another value
C10_Witness ==
    /\ last_call.op = "save_setting"
    /\ last_call.replaced
    /\ Len(settings) = 2
    /\ settings[1].value # settings[2].value

\* C20: a failure inside a persistence operation reaches the caller as an
\* error; it is never turned into a normal result such as an empty table.
\* For get_all_data: when reading the stored rows fails, the call raises.
C20_FailuresArePropagated ==
    ReadRaisesInside(sales, customers) => GetAllDataOutcome(sales, customers).raised

(***************************************************************************)
(* The "Process Files" handler (app.py 37-75)                              *)
(***************************************************************************)
MaxBatch == 3

KUNDLISTA == <<"k", "u", "n", "d", "l", "i", "s", "t", "a">>
NAME_CUSTOMERS == <<"K", "u", "n", "d", "l", "i", "s", "t", "a", ".", "x", "l", "s", "x">>

\* is_customer_file (data_processor.py 11-12)
IsCustomerFile(name) == Contains(Lower(name), KUNDLISTA)

\* a row of a customer registry with the columns Kundnummer, Namn, Land and
\* a column the parser does not know
RegistryRow(number, name, country) ==
    [label \in {"Kundnummer", "Namn", "Land", "Telefon"} |->
        CASE label = "Kundnummer" -> number
          [] label = "Namn" -> name
          [] label = "Land" -> country
          [] OTHER -> NaNCell]

REGISTRY_LABELS == {"Kundnummer", "Namn", "Land", "Telefon"}

\* a registry of two customers
F_CUSTOMERS ==
    CustomerFile(NAME_CUSTOMERS, REGISTRY_LABELS,
                 <<RegistryRow(IntCell(1007), T_A, T_X),
                   RegistryRow(TextCell(NUMBER_20), T_B, NaNCell)>>)
\* a registry whose second row has a time-of-day cell in column Namn
F_CUSTOMERS_TIME_CELL ==
    CustomerFile(NAME_CUSTOMERS, REGISTRY_LABELS,
                 <<RegistryRow(IntCell(1007), T_B, T_Y),
                   RegistryRow(TextCell(NUMBER_20),
                               TimeCell(<<"1", "2", ":", "3", "0", ":", "0", "0">>), NaNCell)>>)
\* a registry without the column Kundnummer
F_CUSTOMERS_NO_NUMBER ==
    CustomerFile(NAME_CUSTOMERS, {"Namn", "Land"},
                 <<[label \in {"Namn", "Land"} |-> T_A]>>)
\* a registry that lists customer 1007 twice, with different fields
F_CUSTOMERS_REPEATED ==
    CustomerFile(NAME_CUSTOMERS, REGISTRY_LABELS,
                 <<RegistryRow(IntCell(1007), T_A, T_X),
                   RegistryRow(IntCell(1007), T_B, T_Y)>>)
F_SALES_A == SalesFile(NAME_PRODUCT, Grid(<<R_CUSTOMER_A, R_ARTICLE>>, FULL_WIDTH))
F_SALES_B == SalesFile(NAME_RANGE, Grid(<<R_HEADER, R_CUSTOMER_B, R_ARTICLE_DIGITS>>, FULL_WIDTH))
\* a sales sheet with no article line
F_SALES_NONE == SalesFile(NAME_RANGE, Grid(<<R_HEADER, R_CUSTOMER_A>>, FULL_WIDTH))
\* a sales sheet with one used column
F_SALES_NARROW == SalesFile(NAME_PRODUCT, Grid(<<R_HEADER, R_CUSTOMER_A>>, 1))
F_UNREADABLE == UnreadableFile(NAME_PLAIN)

BatchFiles == {F_CUSTOMERS, F_CUSTOMERS_TIME_CELL, F_CUSTOMERS_NO_NUMBER,
               F_CUSTOMERS_REPEATED,
               F_SALES_A, F_SALES_B, F_SALES_NONE, F_SALES_NARROW, F_UNREADABLE}

\* One iteration of the loop over uploaded_files (app.py 46-69): the tables
\* afterwards, the message shown, the counters to add, and whether a
\* connection was abandoned with its transaction open.  locked: another
\* connection holds the write lock, so the first write raises "database is
\* locked".
HandleFile(file, ctable, stable, locked, today) ==
    LET failed == [customers |-> ctable, sales |-> stable, report |-> "error",
                   customer_file |-> 0, sales_file |-> 0, leaks |-> FALSE]
    IN  IF IsCustomerFile(file.name)
        THEN LET parsed == ProcessCustomerFile(file)
                 saved == SaveCustomersResult(ctable, parsed.df)
             IN  IF parsed.raised THEN failed
                 ELSE IF locked /\ ~CustomersEmpty(parsed.df) THEN failed
                 ELSE IF saved.raised THEN [failed EXCEPT !.leaks = saved.leaked]
                 ELSE [customers |-> saved.table, sales |-> stable,
                       report |-> "success", customer_file |-> 1,
                       sales_file |-> 0, leaks |-> FALSE]
        ELSE LET parsed == ProcessSalesFile(file, today)
             IN  IF parsed.raised THEN failed
                 ELSE IF parsed.records = <<>>
                 THEN [customers |-> ctable, sales |-> stable,
                       report |-> "warning", customer_file |-> 0,
                       sales_file |-> 0, leaks |-> FALSE]
                 ELSE IF locked THEN failed
                 ELSE [customers |-> ctable,
                       sales |-> SaveSalesDataResult(stable, parsed.records, file.name),
                       report |-> "success", customer_file |-> 0,
                       sales_file |-> 1, leaks |-> FALSE]

\* the button is pressed with a batch of uploaded files, on a new database
InitBatch ==
    /\ ParserIdle
    /\ customers = <<>>
    /\ sales = <<>>
    /\ settings = <<>>
    /\ last_upsert = [key \in CustomerKeys |-> NeverUpserted]
    /\ last_setting = [key \in SettingKeys |-> None]
    /\ last_call = NoCall
    /\ \E n \in 0..MaxBatch : uploaded_files \in [1..n -> BatchFiles]
    /\ idx = 0
    /\ reports = <<>>
    /\ files_processed = 0
    /\ cust_files = 0
    /\ sales_files = 0
    /\ status = "idle"
    /\ leaked = FALSE
    /\ NormIdle

\* app.py 37-44 and 74-75
StartBatch ==
    /\ status = "idle"
    /\ status' = IF uploaded_files # <<>> THEN "processing" ELSE "no_files"
    /\ UNCHANGED <<norm_vars, parser_vars, store_vars, history_vars, uploaded_files, idx,
                   reports, files_processed, cust_files, sales_files, leaked>>

\* app.py 46-69, one iteration
ProcessNextFile ==
    /\ status = "processing"
    /\ idx < Len(uploaded_files)
    /\ \E today \in Todays :
           \E r \in {HandleFile(uploaded_files[idx + 1], customers, sales, leaked, today)} :
               /\ customers' = r.customers
               /\ sales' = r.sales
               /\ reports' = Append(reports, r.report)
               /\ files_processed' = files_processed + (IF r.report = "error" THEN 0 ELSE 1)
               /\ cust_files' = cust_files + r.customer_file
               /\ sales_files' = sales_files + r.sales_file
               /\ leaked' = (leaked \/ r.leaks)
    /\ idx' = idx + 1
    /\ UNCHANGED <<norm_vars, parser_vars, settings, history_vars, uploaded_files, status>>

\* app.py 71-73
FinishBatch ==
    /\ status = "processing"
    /\ idx = Len(uploaded_files)
    /\ status' = "complete"
    /\ UNCHANGED <<norm_vars, parser_vars, store_vars, history_vars, uploaded_files, idx,
                   reports, files_processed, cust_files, sales_files, leaked>>

\* the garbage collector finalises the abandoned connection: its
\* transaction is rolled back and the lock released
CollectGarbage ==
    /\ leaked
    /\ leaked' = FALSE
    /\ UNCHANGED <<norm_vars, parser_vars, store_vars, history_vars, uploaded_files, idx,
                   reports, files_processed, cust_files, sales_files, status>>

NextBatch == StartBatch \/ ProcessNextFile \/ FinishBatch \/ CollectGarbage

SpecBatch == InitBatch /\ [][NextBatch]_vars

(***************************************************************************)
(* Properties of the batch                                                 *)
(***************************************************************************)
\* the file fails by itself: its parser raises, or its save raises on a bind
FailsAlone(file) ==
    \A today \in Todays : HandleFile(file, <<>>, <<>>, FALSE, today).report = "error"

\* the tables after handling the files one after another, no connection
\* being left open
RECURSIVE TablesAfter(_, _, _)
TablesAfter(files, ctable, stable) ==
    IF files = <<>> THEN [customers |-> ctable, sales |-> stable]
    ELSE LET r == HandleFile(Head(files), ctable, stable, FALSE,
                             CHOOSE today \in Todays : TRUE)
         IN  TablesAfter(Tail(files), r.customers, r.sales)

MaxCodeLen == 3
MaxNameParts == 3
MaxFileParts == 3

\* the characters of the article codes
CodeChars == {"E", "e", "B", "1", "0", ".", " ", SUPER_TWO}

CODE_E9005 == <<"E", "9", "0", "0", "5", ".", "0">>
CODE_AB12 == <<"A", "B", "1", "2">>
CODE_E00042 == <<"E", "0", "0", "0", "4", "2">>
ExampleCodes == {CODE_E9005, CODE_AB12, CODE_E00042}

\* the pieces the article names are put together from
NameParts == {<<"S", "i", "l", "e", "n", "t", " ", "S", "o", "c", "k", "s">>,
              <<"s", "i", "l", "e", "n", "t", " ", "s", "o", "c", "k", "s">>,
              <<"x", " ">>, <<" ", "w">>, <<"S">>, <<I_DOT>>}

\* the pieces the filenames are put together from
FileParts == {<<"S", "i", "l", "e", "n", "t", " ", "s", "o", "c", "k", "s", " ">>,
              <<"S", "I", "L", "E", "N", "T", " ", "S", "O", "C", "K", "S">>,
              <<" ">>,
              <<"2", "5", "0", "1", "0", "1">>,
              <<"-", "2", "5", "0", "1", "3", "1">>,
              <<"2", "4", "0", "2", "0", "1", "-", "2", "4", "0", "2", "2", "8", " ">>,
              <<"2", "5", "0", "0", "0", "0">>,
              <<"R", "e", "p", "o", "r", "t", " ">>}

NAME_REPORT == <<"R", "e", "p", "o", "r", "t", " ", "S", "i", "l", "e", "n", "t", " ", "s", "o", "c", "k", "s", " ", "2", "5", "0", "1", "0", "1", "-", "2", "5", "0", "1", "3", "1", ".", "x", "l", "s", "x">>

\* the pieces written one after another
RECURSIVE Flatten(_)
Flatten(parts) == IF parts = <<>> THEN <<>> ELSE Head(parts) \o Flatten(Tail(parts))

\* a raw article code is col1, a stripped text
InitFields ==
    /\ ParserIdle
    /\ customers = <<>>
    /\ sales = <<>>
    /\ settings = <<>>
    /\ last_upsert = <<>>
    /\ last_setting = <<>>
    /\ last_call = NoCall
    /\ BatchIdle
    /\ norm_out = <<>>
    /\ norm_raised = FALSE
    /\ \/ /\ norm_kind = "id"
          /\ \/ \E n \in 0..MaxCodeLen : \E code \in [1..n -> CodeChars] :
                    code = Strip(code) /\ norm_in = code
             \/ norm_in \in ExampleCodes
       \/ /\ norm_kind = "name"
          /\ \E n \in 0..MaxNameParts : \E parts \in [1..n -> NameParts] :
                 norm_in = Flatten(parts)
       \/ /\ norm_kind = "period"
          /\ \/ \E n \in 0..MaxFileParts : \E parts \in [1..n -> FileParts] :
                    norm_in = Flatten(parts)
             \/ norm_in = NAME_REPORT

\* the text the next application is given: the input, then the last result
NormArg == IF norm_out = <<>> THEN norm_in ELSE norm_out[Len(norm_out)]

\* lines 160-170 applied to a code, and again to its result
CanonicalizeId ==
    /\ norm_kind = "id"
    /\ ~norm_raised
    /\ Len(norm_out) < 2
    /\ IF CanonicalRaises(NormArg)
       THEN norm_raised' = TRUE /\ norm_out' = norm_out
       ELSE norm_raised' = FALSE /\ norm_out' = Append(norm_out, CanonicalArticleId(NormArg))
    /\ UNCHANGED <<norm_kind, norm_in, parser_vars, store_vars, history_vars, batch_vars>>

\* lines 172-188 applied to a name, and again to its result
CleanName ==
    /\ norm_kind = "name"
    /\ Len(norm_out) < 2
    /\ norm_out' = Append(norm_out, CleanArticleName(NormArg))
    /\ UNCHANGED <<norm_kind, norm_in, norm_raised, parser_vars, store_vars,
                   history_vars, batch_vars>>

\* lines 73-98 applied to a filename
ExtractPeriodOf ==
    /\ norm_kind = "period"
    /\ norm_out = <<>>
    /\ \E today \in Todays : norm_out' = <<ExtractFileDate(norm_in, today)>>
    /\ UNCHANGED <<norm_kind, norm_in, norm_raised, parser_vars, store_vars,
                   history_vars, batch_vars>>

NextFields == CanonicalizeId \/ CleanName \/ ExtractPeriodOf

SpecFields == InitFields /\ [][NextFields]_vars

(***************************************************************************)
(* Properties of the field functions                                       *)
(***************************************************************************)
\* C11: canonicalizing the canonical form of a raw article code returns
\* that canonical form unchanged.
C11_CanonicalIdempotent ==
    (norm_kind = "id" /\ Len(norm_out) = 2) => norm_out[2] = norm_out[1]

\* the raw code, letter case aside, without one leading letter E and
\* without surrounding whitespace
CleanedRemainder(raw) ==
    LET s == Strip(Upper(raw))
    IN  IF s # <<>> /\ s[1] = "E" THEN Strip(Tail(s)) ELSE s

\* digits, possibly followed by a dot and more digits
LooksNumeric(s) ==
    LET dot == Find(s, <<".">>)
    IN  IF dot = -1 THEN IsDecimal(s)
        ELSE /\ IsDecimal(SubSeq(s, 1, dot))
             /\ dot + 1 = Len(s) \/ IsDecimal(SliceFrom(s, dot + 1))

\* the article id the format rule prescribes for a raw code
ExpectedArticleId(raw) ==
    LET rem == CleanedRemainder(raw)
    IN  IF LooksNumeric(rem)
        THEN <<"E">> \o ZeroPad(NatToDigits(DigitsToInt(BeforeDot(rem))), ID_WIDTH)
        ELSE <<"E">> \o rem

\* C12: the article id of a raw code is E and the integer part zero-padded
\* to five digits when the code without its leading E is numeric, and E and
\* the cleaned remainder as it stands when it is not.
C12_ArticleIdFormat ==
    (norm_kind = "id" /\ Len(norm_out) >= 1) =>
        /\ norm_out[1] = ExpectedArticleId(norm_in)
        /\ LooksNumeric(CleanedRemainder(norm_in)) => Len(norm_out[1]) = 1 + ID_WIDTH

\* the positions of the text where the marketing prefix stands, whatever
\* the case of its letters
PrefixPositions(text) ==
    {p \in 1..Len(text) :
        /\ p + Len(SILENT_SOCKS) - 1 <= Len(text)
        /\ \A k \in 1..Len(SILENT_SOCKS) : LowerChar(text[p + k - 1]) = SILENT_SOCKS[k]}

\* the text from the first occurrence of the marketing prefix on
ExpectedName(text) ==
    IF PrefixPositions(text) = {} THEN text
    ELSE SubSeq(text, Leftmost(PrefixPositions(text)), Len(text))

\* C13: the cleaned name is the text from the first occurrence of
\* "Silent Socks" (any case) on, or the text itself when there is none, and
\* cleaning the cleaned name returns it unchanged.
C13_NameCleaning ==
    norm_kind = "name" =>
        /\ Len(norm_out) >= 1 => norm_out[1] = ExpectedName(norm_in)
        /\ Len(norm_out) = 2 => norm_out[2] = norm_out[1]

\* the six characters at position q are decimal digits
SixDigitsAt(name, q) ==
    /\ q >= 1
    /\ q + 5 <= Len(name)
    /\ \A k \in q..(q + 5) : name[k] \in Range(DIGITS)

\* the positions of a six-digit date that follows the product marker
\* "Silent socks" (any case), separated from it by whitespace only
ProductDates(name) ==
    {q \in 1..Len(name) :
        /\ SixDigitsAt(name, q)
        /\ \E p \in 1..Len(name) :
               /\ OccursAt(Lower(name), SILENT_SOCKS, p)
               /\ q > p + Len(SILENT_SOCKS)
               /\ \A k \in (p + Len(SILENT_SOCKS))..(q - 1) : name[k] = " "}

\* the positions where a range YYMMDD-YYMMDD starts
RangeStarts(name) ==
    {q \in 1..Len(name) :
        /\ SixDigitsAt(name, q)
        /\ q + 6 <= Len(name)
        /\ name[q + 6] = "-"
        /\ SixDigitsAt(name, q + 7)}

\* 20YY-MM-DD for the six digits YYMMDD at position q
DateOf(name, q) ==
    <<"2", "0", name[q], name[q + 1], "-", name[q + 2], name[q + 3], "-",
      name[q + 4], name[q + 5]>>

C15_PeriodIsCalendarDate ==
    (norm_kind = "period" /\ Len(norm_out) = 1) => IsCalendarDate(norm_out[1])

(***************************************************************************)
(* The order of the imports                                                *)
(***************************************************************************)
\* two iterations of the loop over uploaded_files (app.py 46-69) on the
\* tables ctable and stable: the tables afterwards, the messages shown and
\* what get_all_data returns.  collected: the garbage collector finalised a
\* connection abandoned by the first iteration before the second one ran.
ProcessTwoFiles(first, second, ctable, stable, today, collected) ==
    LET r1 == HandleFile(first, ctable, stable, FALSE, today)
        r2 == HandleFile(second, r1.customers, r1.sales, r1.leaks /\ ~collected, today)
    IN  [customers |-> r2.customers, sales |-> r2.sales,
         reports |-> <<r1.report, r2.report>>,
         read |-> GetAllData(r2.sales, r2.customers)]

\* the file is a sales file whose parser returns at least one record
HasSalesRecords(file) ==
    /\ ~IsCustomerFile(file.name)
    /\ \A today \in Todays :
           /\ ~ProcessSalesFile(file, today).raised
           /\ ProcessSalesFile(file, today).records # <<>>

\* the file is a customer registry whose parser returns normally
IsParsedRegistry(file) ==
    IsCustomerFile(file.name) /\ ~ProcessCustomerFile(file).raised

\* a batch of one sales file with records and one customer registry, in
\* either order, was processed on the new database
PairProcessed ==
    /\ status = "complete"
    /\ Len(uploaded_files) = 2
    /\ \E j, k \in 1..2 :
           /\ j # k
           /\ HasSalesRecords(uploaded_files[j])
           /\ IsParsedRegistry(uploaded_files[k])

ReportedCustomers(file) == Len(ProcessCustomerFile(file).df.rows)

\* the customer numbers save_customers binds for the rows of the file
UpsertedNumbers(file) ==
    LET df == ProcessCustomerFile(file).df
    IN  {KeyOfRow(df, k) : k \in 1..Len(df.rows)}

\* C22: for every customer file the handler imported, no two records
\* returned by process_customer_file have the same customer_number, and the
\* customer count in the message equals the number of distinct customer
\* numbers upserted.
C22_CustomerParserDeduplicates ==
    \A k \in 1..Len(reports) :
        (IsCustomerFile(uploaded_files[k].name) /\ reports[k] = "success") =>
            LET rows == ProcessCustomerFile(uploaded_files[k]).df.rows
            IN  /\ \A m, n \in 1..Len(rows) :
                       m # n => rows[m]["customer_number"] # rows[n]["customer_number"]
                /\ ReportedCustomers(uploaded_files[k]) =
                       Cardinality(UpsertedNumbers(uploaded_files[k]))

====
